---------------------------- MODULE Spec2Model ----------------------------
(***************************************************************************)
(* Crisis alert and escalation engine of samples/go/crisis_service.go.     *)
(*                                                                         *)
(* The program keeps an alert in two places: a durable record in Redis     *)
(* (a JSON copy, written by storeAlert, read by GetAlert) and a pointer in *)
(* the in-memory sync.Map activeAlerts.  AnalyzeMessage allocates the      *)
(* alert object; every goroutine it starts (initiateResponse,              *)
(* monitorFor911Escalation) and the escalation monitor work on that one    *)
(* object through its pointer, while AcknowledgeAlert and ResolveAlert     *)
(* work on a fresh copy unmarshalled by GetAlert and store that copy.      *)
(* The model keeps the two apart: heap[id] is the object AnalyzeMessage    *)
(* allocated, redis[id] the durable copy, activeAlerts[id] what the map    *)
(* entry points at.                                                        *)
(*                                                                         *)
(* Each goroutine is a process with a program counter; one action is one   *)
(* stretch of code between two points where another goroutine can observe  *)
(* or change the shared state (a Redis round trip, a sleep, a collaborator *)
(* call).  storeAlert's Set and the map update that follows it are taken   *)
(* as one step, and so is the Delete that follows it in ResolveAlert.      *)
(* alertCleanup removes RESOLVED entries from the map; with that Delete    *)
(* in the same step as the store no entry is ever RESOLVED, so the         *)
(* goroutine has no step here.  Time is in seconds; the clock moves from   *)
(* one point where a comparison of the code changes its value to the next. *)
(*                                                                         *)
(* Spec is the service; FeedSpec adds the StreamAlerts handlers, StopSpec  *)
(* adds Stop(), ResponseSpec the outreach to the emergency contacts,       *)
(* QuerySpec adds GetActiveAlerts, and DRSpec applies determineRecipients  *)
(* on its own.  ExecSpec is the circuit breaker of service_mesh.go under   *)
(* concurrent calls of Execute, MeshSpec the same breaker behind CallHTTP. *)
(***************************************************************************)
EXTENDS Integers, Sequences, FiniteSets, TLC

(***************************************************************************)
(* Bounds of the model.                                                    *)
(***************************************************************************)
\* calls of AcknowledgeAlert / ResolveAlert in one run
MaxOps == 2
\* clock horizon, in seconds
MaxTime == 100000

(***************************************************************************)
(* Constants of the program.                                               *)
(***************************************************************************)
AlertIDs == {"a1"}
\* caller c makes the c-th call of AcknowledgeAlert / ResolveAlert
Clients == 1 .. MaxOps

Levels == {"MODERATE", "ELEVATED", "URGENT", "IMMEDIATE"}
\* the order of the CrisisLevel constants
Rank(l) ==
    CASE l = "NONE" -> 0
      [] l = "MODERATE" -> 1
      [] l = "ELEVATED" -> 2
      [] l = "URGENT" -> 3
      [] l = "IMMEDIATE" -> 4
      [] OTHER -> 0
DetectLevels == Levels \cup {"NONE"}

\* DefaultCrisisConfig().ResponseTimeouts, in seconds; 0: the map has no entry
ResponseTimeouts(l) ==
    CASE l = "IMMEDIATE" -> 30
      [] l = "URGENT" -> 300
      [] l = "ELEVATED" -> 3600
      [] l = "MODERATE" -> 86400
      [] OTHER -> 0

\* DefaultCrisisConfig().EscalationDelays[CrisisLevelImmediate], in seconds
EscalationDelayImmediate == 15

Nil == [Status |-> "NIL"]
IsNil(a) == a.Status = "NIL"

\* the alert without lines 342-344: the deadline stays the zero time
NewAlertWithoutDeadline(l, t) ==
    [ Level |-> l,
      Status |-> "ACTIVE",
      Timestamp |-> t,
      ResponseDeadline |-> 0,
      AssignedTo |-> << >>,
      Acknowledgments |-> << >>,
      Escalations |-> << >> ]

\* the CrisisAlert that AnalyzeMessage builds
NewAlert(l, t) ==
    [ Level |-> l,
      Status |-> "ACTIVE",
      Timestamp |-> t,
      ResponseDeadline |-> IF l \in Levels THEN t + ResponseTimeouts(l) ELSE 0,
      AssignedTo |-> << >>,
      Acknowledgments |-> << >>,
      Escalations |-> << >> ]

VARIABLES
    now,           \* time.Now(), seconds
    autoCall,      \* config.Enable911AutoCall
    heap,          \* id -> the alert object AnalyzeMessage allocated, or Nil
    redis,         \* id -> durable record "crisis:alert:<id>", or Nil
    activeAlerts,  \* id -> what the sync.Map entry points at
    ir,            \* initiateResponse goroutines, by alert and spawner
    watch,         \* monitorFor911Escalation goroutines, by alert and spawner
    mon,           \* the escalationMonitor goroutine
    cl,            \* callers of AcknowledgeAlert / ResolveAlert
    ret,           \* the last return of AcknowledgeAlert / ResolveAlert
    an,            \* the last AnalyzeMessage call: collaborator answers, result
    calls,         \* id -> number of TriggerEmergencyCall invocations
    overlap,       \* some client call began while another was running
    pubsub,        \* Redis pub/sub: what was published, the StreamAlerts calls
    stopped,       \* Stop() was called: s.ctx is cancelled
    notified,      \* id -> what the latest initiateResponse sent to the care team
    outreach,      \* per response task: its notifyEmergencyContacts goroutine
    audit,         \* the events handed to the audit logger, in order
    expires,       \* id -> when Redis drops the durable record (0: no record)
    cb,            \* the CircuitBreaker of one service type
    caller,        \* goroutine -> where it is in CallHTTP / Execute
    dr             \* determineRecipients applied on its own: care team, results

serviceVars == << now, autoCall, heap, redis, activeAlerts, ir, watch, mon, cl, ret,
                 an, calls, overlap, pubsub, stopped, notified, outreach, audit, expires, cb, caller >>
vars == << serviceVars, dr >>

\* who starts an initiateResponse goroutine: AnalyzeMessage or escalateAlert
Spawners == {"new", "esc"}

(***************************************************************************)
(* The in-memory index.  An entry holds a pointer: to the object that      *)
(* AnalyzeMessage allocated ("orig", read through heap) or to a copy that  *)
(* GetAlert unmarshalled and a client stored ("copy", nobody else holds    *)
(* it, so the entry carries its value).                                    *)
(***************************************************************************)
NoEntry == [kind |-> "none", val |-> Nil]
OrigEntry == [kind |-> "orig", val |-> Nil]
CopyEntry(a) == [kind |-> "copy", val |-> a]

\* the alert an entry of activeAlerts points at
Deref(id) ==
    IF activeAlerts[id].kind = "orig" THEN heap[id] ELSE activeAlerts[id].val

(***************************************************************************)
(* Care team of the resident (CareTeamService.GetCareTeam), and            *)
(* determineRecipients.                                                    *)
(***************************************************************************)
CareTeamMembers ==
    << [UserID |-> "dr", Role |-> "physician", Phone |-> "p1", Email |-> "e1"],
       [UserID |-> "rn", Role |-> "nurse", Phone |-> "", Email |-> "e2"],
       [UserID |-> "sw", Role |-> "social_worker", Phone |-> "p3", Email |-> "e3"],
       [UserID |-> "cm", Role |-> "care_manager", Phone |-> "p4", Email |-> "e4"] >>

RECURSIVE MapSeq(_, _)
MapSeq(s, field) ==
    IF s = << >> THEN << >> ELSE << Head(s)[field] >> \o MapSeq(Tail(s), field)

\* the URGENT case without the nurse
SelectedUrgentWithoutNurse(level, m) ==
    CASE level = "IMMEDIATE" -> TRUE
      [] level = "URGENT" -> m.Role \in {"physician", "social_worker"}
      [] level = "ELEVATED" -> m.Role \in {"physician", "social_worker"}
      [] level = "MODERATE" -> m.Role = "care_manager"
      [] OTHER -> FALSE

\* the ELEVATED case with the care manager added
SelectedElevatedWithCareManager(level, m) ==
    CASE level = "IMMEDIATE" -> TRUE
      [] level = "URGENT" -> m.Role \in {"physician", "nurse", "social_worker"}
      [] level = "ELEVATED" -> m.Role \in {"physician", "social_worker", "care_manager"}
      [] level = "MODERATE" -> m.Role = "care_manager"
      [] OTHER -> FALSE

\* the switch of lines 460-491: is the member a recipient at this level
Selected(level, m) ==
    CASE level = "IMMEDIATE" -> TRUE
      [] level = "URGENT" -> m.Role \in {"physician", "nurse", "social_worker"}
      [] level = "ELEVATED" -> m.Role \in {"physician", "social_worker"}
      [] level = "MODERATE" -> m.Role = "care_manager"
      [] OTHER -> FALSE

\* a *CareTeam: nil, or its Members
NilTeam == [nil |-> TRUE, Members |-> << >>]
Team(members) == [nil |-> FALSE, Members |-> members]

\* what initiateResponse holds in careTeam after GetCareTeam: the team, or
\* nil when the lookup failed (the error is logged and the response goes on)
\* a lookup that answers with the team even when it fails
GetCareTeamAlways(teamOK) == Team(CareTeamMembers)

GetCareTeam(teamOK) == IF teamOK THEN Team(CareTeamMembers) ELSE NilTeam

determineRecipients(level, careTeam) ==
    IF careTeam.nil
    THEN [UserIDs |-> << >>, PhoneNumbers |-> << >>, Emails |-> << >>]
    ELSE LET sel == SelectSeq(careTeam.Members, LAMBDA m : Selected(level, m))
             ph == SelectSeq(sel, LAMBDA m : m.Phone # "")
         IN [UserIDs |-> MapSeq(sel, "UserID"),
             PhoneNumbers |-> IF level \in {"IMMEDIATE", "URGENT"}
                              THEN MapSeq(ph, "Phone") ELSE << >>,
             Emails |-> IF level = "IMMEDIATE"
                        THEN MapSeq(sel, "Email") ELSE << >>]

(***************************************************************************)
(* storeAlert and recordEscalation.                                        *)
(***************************************************************************)
\* the retention of a stored record, seconds (7 days)
AlertTTL == 604800

\* line 707: the Set carries a TTL of 7 days, counted by Redis from the Set
Expiry(t) == t + AlertTTL

\* storeAlert without the return of line 708: the map is updated even when
\* the Set failed
StoreAlertIndexingOnFailure(id, a, entry, storeOK) ==
    /\ activeAlerts' = [activeAlerts EXCEPT ![id] = entry]
    /\ IF storeOK
       THEN /\ redis' = [redis EXCEPT ![id] = a]
            /\ expires' = [expires EXCEPT ![id] = Expiry(now)]
       ELSE UNCHANGED << redis, expires >>

\* storeAlert(alert): on a failed Set nothing is written and the map is not
\* touched; on success the record is replaced and the map entry points at
\* the stored object.
StoreAlert(id, a, entry, storeOK) ==
    IF storeOK
    THEN /\ redis' = [redis EXCEPT ![id] = a]
         /\ expires' = [expires EXCEPT ![id] = Expiry(now)]
         /\ activeAlerts' = [activeAlerts EXCEPT ![id] = entry]
    ELSE UNCHANGED << redis, expires, activeAlerts >>

\* recordEscalation without line 729: the record is appended, the status stays
WithEscalationKeepingStatus(a, from, to, reason, by) ==
    [a EXCEPT !.Escalations = Append(@, [FromLevel |-> from, ToLevel |-> to,
                                         Reason |-> reason, TriggeredBy |-> by])]

\* the in-memory part of recordEscalation
WithEscalation(a, from, to, reason, by) ==
    [a EXCEPT !.Escalations = Append(@, [FromLevel |-> from, ToLevel |-> to,
                                         Reason |-> reason, TriggeredBy |-> by]),
              !.Status = "ESCALATED"]

\* the auditLogger field of the service: NewCrisisService has no parameter
\* for it and leaves it at its zero value, and nothing assigns it later
AuditLoggerIsNil == TRUE

\* if s.auditLogger != nil { s.auditLogger.LogCrisisEvent(...) }
LogCrisisEvent(log, type, id) ==
    IF AuditLoggerIsNil THEN log ELSE Append(log, [EventType |-> type, AlertID |-> id])

\* recordEscalation(alert, ...) on the object AnalyzeMessage allocated: the
\* error of storeAlert is dropped.
recordEscalation(id, from, to, reason, by, storeOK) ==
    LET a == WithEscalation(heap[id], from, to, reason, by)
    IN /\ heap' = [heap EXCEPT ![id] = a]
       /\ StoreAlert(id, a, OrigEntry, storeOK)
       /\ audit' = LogCrisisEvent(audit, "escalated", id)

(***************************************************************************)
(* Initial state: NewCrisisService has returned, nothing has been          *)
(* analysed.  The configuration is DefaultCrisisConfig with either value   *)
(* of Enable911AutoCall.                                                   *)
(***************************************************************************)
StartTime == 1000

IdleIR == [pc |-> "off", phones |-> << >>, lookup |-> ""]
IdleWatch == [pc |-> "off", wake |-> 0]
IdleMon == [pc |-> "idle", id |-> "", next |-> ""]
NewClient == [pc |-> "new", id |-> "", loc |-> Nil]
NoReturn == [c |-> 0, op |-> "", id |-> "", err |-> ""]
NoCall == [primary |-> "NOCALL", fallback |-> "UNASKED", ret |-> ""]

\* The two StreamAlerts handlers (CrisisGRPCServer in crisis_service.go,
\* CrisisAlertStreamServer in grpc_streaming.go) and the channel each
\* subscribes to for facility f1.
Feeds == {"grpc", "stream"}
Channel(s) == IF s = "grpc" THEN "crisis:alerts:f1" ELSE "crisis:facility:f1"
Channels == {Channel(s) : s \in Feeds}

\* pc: "off" not called, "open" in its loop, "closed" returned; next: the
\* first message of the channel the subscription delivers; sent: what the
\* handler sent on its stream; early: subscribed before any alert existed
IdleFeed == [pc |-> "off", next |-> 1, sent |-> << >>, early |-> FALSE]
IdlePubsub == [published |-> [ch \in Channels |-> << >>],
               subs |-> [s \in Feeds |-> IdleFeed]]

\* what the latest run of initiateResponse for an alert has handed to the
\* notifier for the care team by SendPush (line 397) and by SendEmail; the
\* SendSMS of line 410 is CareTeamSMS of the level and the phone list the
\* task holds when it takes that step
NoNote == [pushed |-> FALSE, push |-> << >>, email |-> << >>]


\* the goroutine of line 422: not started, started, or returned, with what
\* it delivered and how its contact lookup ended
IdleOutreach == [pc |-> "off", lookup |-> "", sms |-> << >>, email |-> << >>]

\* NewServiceClient: the configuration of every breaker (the timeout of 30 s
\* is the flag elapsed below)
MaxFailures == 5
HalfOpenMax == 3

\* goroutines that call the breaker at the same time
NumGoroutines == 4
Goroutines == 1 .. NumGoroutines

\* NewCircuitBreaker: CLOSED, counters zero.  elapsed stands for
\* time.Since(cb.lastFailure) > cb.timeout, true of the zero lastFailure.
\* admitted and streak are not fields of the breaker: admitted counts the
\* calls let through since the breaker last became HALF_OPEN, streak the
\* failures recorded since the last recorded success; both stop counting
\* one past the limit they are compared with.
NewCircuitBreaker ==
    [state |-> "CLOSED", failures |-> 0, successes |-> 0, elapsed |-> TRUE,
     admitted |-> 0, streak |-> 0]

\* determineRecipients on its own: no result yet for any level
Unset == [set |-> FALSE, UserIDs |-> << >>, PhoneNumbers |-> << >>]
IdleDR == [careTeam |-> NilTeam, out |-> [l \in Levels |-> Unset]]

ServiceInit ==
    /\ now = StartTime
    /\ autoCall \in BOOLEAN
    /\ heap = [id \in AlertIDs |-> Nil]
    /\ redis = [id \in AlertIDs |-> Nil]
    /\ activeAlerts = [id \in AlertIDs |-> NoEntry]
    /\ ir = [id \in AlertIDs |-> [k \in Spawners |-> IdleIR]]
    /\ watch = [id \in AlertIDs |-> [k \in Spawners |-> IdleWatch]]
    /\ mon = IdleMon
    /\ cl = [c \in Clients |-> NewClient]
    /\ an = NoCall
    /\ ret = NoReturn
    /\ calls = [id \in AlertIDs |-> 0]
    /\ overlap = FALSE
    /\ caller = [p \in Goroutines |-> "idle"]
    /\ cb = NewCircuitBreaker
    /\ expires = [id \in AlertIDs |-> 0]
    /\ audit = << >>
    /\ outreach = [id \in AlertIDs |-> [k \in Spawners |-> IdleOutreach]]
    /\ notified = [id \in AlertIDs |-> NoNote]
    /\ stopped = FALSE
    /\ pubsub = IdlePubsub

Init == ServiceInit /\ dr = IdleDR

(***************************************************************************)
(* AnalyzeMessage.  p is the answer of the AI router ("ERR": the call      *)
(* failed), f the answer the fallback detector gives if it is asked.       *)
(***************************************************************************)
Outcomes == DetectLevels \cup {"ERR"}

\* a detection that asks the fallback detector whatever the router answered
DetectionAskingBoth(p, f) == [asked |-> TRUE, level |-> IF p # "ERR" THEN p ELSE f]

\* lines 297-320: which detector decides
Detection(p, f) ==
    IF p # "ERR"
    THEN [asked |-> FALSE, level |-> p]
    ELSE [asked |-> TRUE, level |-> f]

\* AnalyzeMessage without the return of lines 323-325
AnalyzeMessageKeepingNone(id, p, f, storeOK) ==
    LET d == IF p # "ERR" THEN [asked |-> FALSE, level |-> p]
                          ELSE [asked |-> TRUE, level |-> f]
        seen == [primary |-> p, fallback |-> IF d.asked THEN f ELSE "UNASKED"]
    IN IF d.level = "ERR"
       THEN /\ an' = seen @@ [ret |-> "err"]
            /\ storeOK
            /\ UNCHANGED << dr, caller, cb, expires, audit, outreach, notified, stopped, pubsub, heap, redis, activeAlerts, ir >>
       ELSE /\ heap' = [heap EXCEPT ![id] = NewAlert(d.level, now)]
            /\ StoreAlert(id, NewAlert(d.level, now), OrigEntry, storeOK)
            /\ ir' = [ir EXCEPT ![id]["new"].pc = "start"]
            /\ an' = seen @@ [ret |-> id]

\* lines 293-375; id is the UUID the call draws at line 329 if it gets
\* there; the return value is "err", "nil" or the alert's ID
AnalyzeMessage(id, p, f, storeOK) ==
    LET d == Detection(p, f)
        seen == [primary |-> p, fallback |-> IF d.asked THEN f ELSE "UNASKED"]
    IN IF d.level = "ERR"
       THEN /\ an' = seen @@ [ret |-> "err"]
            /\ storeOK
            /\ UNCHANGED << dr, caller, cb, expires, audit, outreach, notified, stopped, pubsub, heap, redis, activeAlerts, ir >>
       ELSE IF d.level = "NONE"
       THEN /\ an' = seen @@ [ret |-> "nil"]
            /\ storeOK
            /\ UNCHANGED << dr, caller, cb, expires, audit, outreach, notified, stopped, pubsub, heap, redis, activeAlerts, ir >>
       ELSE /\ heap' = [heap EXCEPT ![id] = NewAlert(d.level, now)]
            /\ StoreAlert(id, NewAlert(d.level, now), OrigEntry, storeOK)
            /\ ir' = [ir EXCEPT ![id]["new"].pc = "start"]
            /\ an' = seen @@ [ret |-> id]

\* The caller of AnalyzeMessage takes the return value before the scheduler
\* runs another goroutine: an holds the call from its return to that point.
\* Taking the value touches nothing shared, so every interleaving of the
\* program's state is kept.
Returned == an = NoCall /\ ret = NoReturn

Analyze(id, p, f, storeOK) ==
    /\ Returned
    /\ IsNil(heap[id])
    /\ AnalyzeMessage(id, p, f, storeOK)
    /\ UNCHANGED << dr, caller, cb, audit, outreach, notified, stopped, pubsub, now, autoCall, watch, mon, cl, ret, calls, overlap >>

\* CrisisGRPCServer.AnalyzeCrisis builds its response from the return value
AnalyzeReturn ==
    /\ an # NoCall
    /\ an' = NoCall
    /\ UNCHANGED << dr, caller, cb, expires, audit, outreach, notified, stopped, pubsub, now, autoCall, heap, redis, activeAlerts, ir, watch, mon, cl, ret,
                    calls, overlap >>

(***************************************************************************)
(* initiateResponse(alert), on the object AnalyzeMessage allocated.        *)
(***************************************************************************)
\* lines 383-401: care-team lookup, determineRecipients, AssignedTo, SendPush
IRStart(id, k, teamOK) ==
    /\ Returned
    /\ ir[id][k].pc = "start"
    /\ LET r == determineRecipients(heap[id].Level, GetCareTeam(teamOK))
       IN /\ heap' = [heap EXCEPT ![id].AssignedTo = r.UserIDs]
          /\ ir' = [ir EXCEPT ![id][k] = [pc |-> "level", phones |-> r.PhoneNumbers,
                                            lookup |-> IF teamOK THEN "ok" ELSE "failed"]]
          /\ notified' = [notified EXCEPT ![id] =
                              [NoNote EXCEPT !.pushed = TRUE, !.push = r.UserIDs]]
    /\ UNCHANGED << dr, caller, cb, expires, audit, outreach, stopped, pubsub, now, autoCall, redis, activeAlerts, watch, mon, cl, ret, an, calls,
                    overlap >>

\* lines 403-417 without the test of Enable911AutoCall
StartsWatcherIgnoringFlag(level) == level = "IMMEDIATE"

\* lines 403 and 415: is monitorFor911Escalation started
StartsWatcher(level) == level = "IMMEDIATE" /\ autoCall

\* lines 403-412: the SMS to the care team, for IMMEDIATE and a non-empty
\* list of phone numbers only
CareTeamSMS(level, phones) ==
    IF level = "IMMEDIATE" /\ Len(phones) > 0 THEN phones ELSE << >>

\* lines 420-423: is notifyEmergencyContacts started
StartsOutreach(level) == level \in {"IMMEDIATE", "URGENT"}

\* lines 403-438: for IMMEDIATE, SMS and the emergency watcher; for IMMEDIATE
\* and URGENT, the goroutine for the emergency contacts; then the return,
\* whose deferred cancel ends the context the goroutine was given
IRLevel(id, k) ==
    /\ Returned
    /\ ir[id][k].pc = "level"
    /\ ir' = [ir EXCEPT ![id][k] = [pc |-> "done", phones |-> << >>, lookup |-> ""]]
    /\ watch' = IF StartsWatcher(heap[id].Level)
                THEN [watch EXCEPT ![id][k] =
                         [pc |-> "sleep", wake |-> now + EscalationDelayImmediate]]
                ELSE watch
    /\ outreach' = IF StartsOutreach(heap[id].Level)
                   THEN [outreach EXCEPT ![id][k] = [IdleOutreach EXCEPT !.pc = "spawned"]]
                   ELSE outreach
    /\ audit' = LogCrisisEvent(audit, "response_initiated", id)
    /\ UNCHANGED << dr, caller, cb, expires, notified, stopped, pubsub, now, autoCall, heap, redis, activeAlerts, mon, cl, ret, an, calls,
                    overlap >>

\* a Redis call made with s.ctx: it fails once Stop has cancelled s.ctx
OnServiceCtx(ok) == ok /\ ~stopped

(***************************************************************************)
(* monitorFor911Escalation(alert).                                         *)
(***************************************************************************)
\* GetAlert without the redis.Nil case of lines 651-653: a missing key is
\* returned as an alert with no error
GetAlertWithoutNotFound(id, readOK) ==
    IF ~readOK THEN [err |-> "failed to get alert", alert |-> Nil]
    ELSE [err |-> "", alert |-> redis[id]]

\* GetAlert: a Redis error, redis.Nil, or the unmarshalled copy
GetAlert(id, readOK) ==
    IF ~readOK THEN [err |-> "failed to get alert", alert |-> Nil]
    ELSE IF IsNil(redis[id]) THEN [err |-> "alert not found", alert |-> Nil]
    ELSE [err |-> "", alert |-> redis[id]]

\* line 511 without its test of the status
UnansweredWhateverStatus(current) == Len(current.Acknowledgments) = 0

\* line 511, on the copy GetAlert returned
Unanswered(current) ==
    current.Status = "ACTIVE" /\ Len(current.Acknowledgments) = 0

\* lines 499-511: the sleep is over, GetAlert, the check on its result
WatchFire(id, k, readOK) ==
    /\ Returned
    /\ watch[id][k].pc = "sleep"
    /\ now >= watch[id][k].wake
    /\ LET g == GetAlert(id, OnServiceCtx(readOK))
       IN watch' = [watch EXCEPT ![id][k].pc =
                       IF g.err = "" /\ Unanswered(g.alert) THEN "armed" ELSE "done"]
    /\ UNCHANGED << dr, caller, cb, expires, audit, outreach, notified, stopped, pubsub, now, autoCall, heap, redis, activeAlerts, ir, mon, cl, ret, an, calls,
                    overlap >>

\* a watcher that returns when GetEmergencyContacts fails
WatchLookupEndingOnFailure(id, k, contactsOK) ==
    /\ Returned
    /\ watch[id][k].pc = "armed"
    /\ watch' = [watch EXCEPT ![id][k].pc = IF contactsOK THEN "call" ELSE "done"]
    /\ UNCHANGED << dr, caller, cb, expires, audit, outreach, notified, stopped, pubsub, now, autoCall, heap, redis, activeAlerts, ir, mon,
                    cl, ret, an, calls, overlap >>

\* lines 518-519: GetEmergencyContacts; contactsOK: no error and a contact
WatchLookup(id, k, contactsOK) ==
    /\ Returned
    /\ watch[id][k].pc = "armed"
    /\ watch' = [watch EXCEPT ![id][k].pc = IF contactsOK THEN "call" ELSE "record"]
    /\ UNCHANGED << dr, caller, cb, expires, audit, outreach, notified, stopped, pubsub, now, autoCall, heap, redis, activeAlerts, ir, mon, cl, ret, an,
                    calls, overlap >>

\* lines 520-524: TriggerEmergencyCall if there is a contact, then
\* recordEscalation on the object the watcher was started with
WatchRecord(id, k, storeOK) ==
    /\ Returned
    /\ watch[id][k].pc \in {"call", "record"}
    /\ calls' = [calls EXCEPT ![id] = IF watch[id][k].pc = "call" THEN @ + 1 ELSE @]
    /\ recordEscalation(id, "IMMEDIATE", "IMMEDIATE",
                        "No acknowledgment within deadline", "auto",
                        OnServiceCtx(storeOK))
    /\ watch' = [watch EXCEPT ![id][k].pc = "done"]
    /\ UNCHANGED << dr, caller, cb, outreach, notified, stopped, pubsub, now, autoCall, ir, mon, cl, ret, an, overlap >>

(***************************************************************************)
(* escalationMonitor: checkEscalations and escalateAlert.                  *)
(***************************************************************************)
\* line 775 without the comparison with the deadline
ShouldEscalateIgnoringDeadline(a) ==
    /\ a.Status = "ACTIVE"
    /\ Len(a.Acknowledgments) = 0

\* lines 770-775
ShouldEscalate(a) ==
    /\ a.Status = "ACTIVE"
    /\ now > a.ResponseDeadline
    /\ Len(a.Acknowledgments) = 0

\* lines 793-803
NextLevel(l) ==
    CASE l = "MODERATE" -> "ELEVATED"
      [] l = "ELEVATED" -> "URGENT"
      [] l = "URGENT" -> "IMMEDIATE"
      [] l = "IMMEDIATE" -> "IMMEDIATE"
      [] OTHER -> ""

\* checkEscalations, lines 766-786: the Range callback reaches the entry of
\* id and its test passes; a callback whose test fails changes nothing
MonVisit(id) ==
    /\ Returned
    /\ mon.pc = "idle"
    /\ activeAlerts[id].kind # "none"
    /\ ShouldEscalate(Deref(id))
    /\ mon' = [mon EXCEPT !.pc = "rec", !.id = id]
    /\ UNCHANGED << dr, caller, cb, expires, audit, outreach, notified, stopped, pubsub, now, autoCall, heap, redis, activeAlerts, ir, watch, cl, ret, an,
                    calls, overlap >>

\* escalateAlert, lines 791-805: the ladder and recordEscalation
MonRecord(storeOK) ==
    /\ Returned
    /\ mon.pc = "rec"
    /\ recordEscalation(mon.id, heap[mon.id].Level, NextLevel(heap[mon.id].Level),
                        "Response deadline exceeded", "auto", OnServiceCtx(storeOK))
    /\ mon' = [mon EXCEPT !.pc = "lvl", !.next = NextLevel(heap[mon.id].Level)]
    /\ UNCHANGED << dr, caller, cb, outreach, notified, stopped, pubsub, now, autoCall, ir, watch, cl, ret, an, calls, overlap >>

\* escalateAlert, lines 808-813: the new level and deadline, in memory only,
\* and a new initiateResponse
MonRelevel ==
    /\ Returned
    /\ mon.pc = "lvl"
    /\ heap' = [heap EXCEPT ![mon.id].Level = mon.next,
                            ![mon.id].ResponseDeadline =
                                IF mon.next \in Levels
                                THEN now + ResponseTimeouts(mon.next) ELSE @]
    /\ ir' = [ir EXCEPT ![mon.id]["esc"] =
                            [pc |-> "start", phones |-> << >>, lookup |-> ""]]
    /\ mon' = IdleMon
    /\ UNCHANGED << dr, caller, cb, expires, audit, outreach, notified, stopped, pubsub, now, autoCall, redis, activeAlerts, watch, cl, ret, an, calls,
                    overlap >>

(***************************************************************************)
(* AcknowledgeAlert and ResolveAlert.  Caller c is the responder; a call   *)
(* is two steps, GetAlert and the write, with the copy GetAlert returned   *)
(* held in between.  ret.err is the error returned ("": nil).              *)
(***************************************************************************)
ClientRole(c) == IF c % 2 = 1 THEN "nurse" ELSE "physician"

\* line 564 accepting ACTIVE only
AcknowledgeableOnlyActive(a) == a.Status = "ACTIVE"

\* line 564
Acknowledgeable(a) == a.Status \in {"ACTIVE", "ACKNOWLEDGED"}

\* lines 568-576
WithAcknowledgment(a, c) ==
    [a EXCEPT !.Acknowledgments = Append(@, [UserID |-> c, Role |-> ClientRole(c)]),
              !.Status = "ACKNOWLEDGED"]

\* a resolution that removes the record instead of marking it
WithResolutionDeleting(a) == Nil

\* line 615
WithResolution(a) == [a EXCEPT !.Status = "RESOLVED"]

Running(c) == cl[c].pc \in {"ack", "res"}

\* a call that has returned: "acked" when AcknowledgeAlert returned nil
Done(c, op, err) ==
    [pc |-> IF op = "ack" /\ err = "" THEN "acked" ELSE "done", id |-> "", loc |-> Nil]

Begin(c) ==
    /\ Returned
    /\ cl[c].pc = "new"
    /\ \A d \in Clients : d < c => cl[d].pc # "new"
    /\ overlap' = (overlap \/ \E d \in Clients : Running(d))

\* lines 559-566
AckRead(c, id, readOK) ==
    /\ Begin(c)
    /\ LET g == GetAlert(id, readOK)
           e == IF g.err # "" THEN g.err
                ELSE IF ~Acknowledgeable(g.alert)
                THEN "alert is not in an acknowledgeable state"
                ELSE ""
       IN IF e # ""
          THEN /\ cl' = [cl EXCEPT ![c] = Done(c, "ack", e)]
               /\ ret' = [c |-> c, op |-> "ack", id |-> id, err |-> e]
          ELSE /\ cl' = [cl EXCEPT ![c] = [pc |-> "ack", id |-> id, loc |-> g.alert]]
               /\ ret' = ret
    /\ UNCHANGED << dr, caller, cb, expires, audit, outreach, notified, stopped, pubsub, now, autoCall, heap, redis, activeAlerts, ir, watch, mon, an,
                    calls >>

\* lines 568-597 and the return
AckWrite(c, storeOK) ==
    /\ Returned
    /\ cl[c].pc = "ack"
    /\ LET a == WithAcknowledgment(cl[c].loc, c)
           e == IF storeOK THEN "" ELSE "failed to update alert"
       IN /\ StoreAlert(cl[c].id, a, CopyEntry(a), storeOK)
          /\ cl' = [cl EXCEPT ![c] = Done(c, "ack", e)]
          /\ ret' = [c |-> c, op |-> "ack", id |-> cl[c].id, err |-> e]
          /\ audit' = IF storeOK THEN LogCrisisEvent(audit, "acknowledged", cl[c].id)
                      ELSE audit
    /\ UNCHANGED << dr, caller, cb, outreach, notified, stopped, pubsub, now, autoCall, heap, ir, watch, mon, an, calls, overlap >>

\* lines 610-613
ResolveRead(c, id, readOK) ==
    /\ Begin(c)
    /\ LET g == GetAlert(id, readOK)
       IN IF g.err # ""
          THEN /\ cl' = [cl EXCEPT ![c] = Done(c, "res", g.err)]
               /\ ret' = [c |-> c, op |-> "res", id |-> id, err |-> g.err]
          ELSE /\ cl' = [cl EXCEPT ![c] = [pc |-> "res", id |-> id, loc |-> g.alert]]
               /\ ret' = ret
    /\ UNCHANGED << dr, caller, cb, expires, audit, outreach, notified, stopped, pubsub, now, autoCall, heap, redis, activeAlerts, ir, watch, mon, an,
                    calls >>

\* lines 615-643 and the return: storeAlert, then activeAlerts.Delete
ResolveWrite(c, storeOK) ==
    /\ Returned
    /\ cl[c].pc = "res"
    /\ IF storeOK
       THEN /\ redis' = [redis EXCEPT ![cl[c].id] = WithResolution(cl[c].loc)]
            /\ expires' = [expires EXCEPT ![cl[c].id] = Expiry(now)]
            /\ activeAlerts' = [activeAlerts EXCEPT ![cl[c].id] = NoEntry]
       ELSE UNCHANGED << redis, expires, activeAlerts >>
    /\ cl' = [cl EXCEPT ![c] = Done(c, "res", "")]
    /\ ret' = [c |-> c, op |-> "res", id |-> cl[c].id,
               err |-> IF storeOK THEN "" ELSE "failed to update alert"]
    /\ audit' = IF storeOK THEN LogCrisisEvent(audit, "resolved", cl[c].id) ELSE audit
    /\ UNCHANGED << dr, caller, cb, outreach, notified, stopped, pubsub, now, autoCall, heap, ir, watch, mon, an, calls, overlap >>

\* the caller takes the return value
ClientReturn ==
    /\ ret # NoReturn
    /\ ret' = NoReturn
    /\ UNCHANGED << dr, caller, cb, expires, audit, outreach, notified, stopped, pubsub, now, autoCall, heap, redis, activeAlerts, ir, watch, mon, cl, an,
                    calls, overlap >>

(***************************************************************************)
(* The clock.  The code compares time.Now() with the response deadline of  *)
(* an alert object it finds in activeAlerts (After, line 775) and sleeps   *)
(* until a wake-up time (line 500); the clock moves to the next instant at *)
(* which one of these changes its value.  The deadline of an alert that    *)
(* has left ACTIVE at the top of the ladder is compared by nothing and no  *)
(* later deadline follows it, so the clock does not stop there.            *)
(***************************************************************************)
Watched(a) == a.Status = "ACTIVE" \/ a.Level # "IMMEDIATE"

Instants ==
    {heap[id].ResponseDeadline + 1 :
        id \in {i \in AlertIDs : activeAlerts[i].kind = "orig" /\ Watched(heap[i])}}
    \cup {watch[x[1]][x[2]].wake :
            x \in {y \in AlertIDs \X Spawners : watch[y[1]][y[2]].pc = "sleep"}}

Min(S) == CHOOSE x \in S : \A y \in S : x <= y

Tick ==
    /\ Returned
    /\ \E t \in Instants : t > now /\ t <= MaxTime
    /\ now' = Min({t \in Instants : t > now})
    /\ UNCHANGED << dr, caller, cb, expires, audit, outreach, notified, stopped, pubsub, autoCall, heap, redis, activeAlerts, ir, watch, mon, cl, ret, an,
                    calls, overlap >>

Next ==
    \/ \E id \in AlertIDs, p \in Outcomes, f \in Outcomes, storeOK \in BOOLEAN :
         Analyze(id, p, f, storeOK)
    \/ AnalyzeReturn
    \/ \E id \in AlertIDs, k \in Spawners, teamOK \in BOOLEAN : IRStart(id, k, teamOK)
    \/ \E id \in AlertIDs, k \in Spawners : IRLevel(id, k)
    \/ \E id \in AlertIDs, k \in Spawners, readOK \in BOOLEAN : WatchFire(id, k, readOK)
    \/ \E id \in AlertIDs, k \in Spawners, contactsOK \in BOOLEAN :
         WatchLookup(id, k, contactsOK)
    \/ \E id \in AlertIDs, k \in Spawners, storeOK \in BOOLEAN : WatchRecord(id, k, storeOK)
    \/ \E id \in AlertIDs : MonVisit(id)
    \/ \E storeOK \in BOOLEAN : MonRecord(storeOK)
    \/ MonRelevel
    \/ \E c \in Clients, id \in AlertIDs, readOK \in BOOLEAN : AckRead(c, id, readOK)
    \/ \E c \in Clients, storeOK \in BOOLEAN : AckWrite(c, storeOK)
    \/ \E c \in Clients, id \in AlertIDs, readOK \in BOOLEAN : ResolveRead(c, id, readOK)
    \/ \E c \in Clients, storeOK \in BOOLEAN : ResolveWrite(c, storeOK)
    \/ ClientReturn
    \/ Tick

Spec == Init /\ [][Next]_vars

\* The scheduler runs a watcher goroutine that can take a step, and a call
\* that has returned hands its result to its caller.
WatchStep ==
    \/ \E id \in AlertIDs, k \in Spawners, contactsOK \in BOOLEAN :
         WatchLookup(id, k, contactsOK)
    \/ \E id \in AlertIDs, k \in Spawners, storeOK \in BOOLEAN : WatchRecord(id, k, storeOK)

FairSpec ==
    /\ Init
    /\ [][Next]_vars
    /\ WF_vars(WatchStep)
    /\ WF_vars(AnalyzeReturn)
    /\ WF_vars(ClientReturn)

(***************************************************************************)
(* Stop.  It cancels s.ctx: the select of escalationMonitor (lines 754-761) *)
(* and of alertCleanup can then take the Done case and return; a Redis     *)
(* call made with s.ctx fails.  Nothing waits for the goroutines that are  *)
(* running.  StopSpec is the service with Stop.                            *)
(***************************************************************************)
Stop ==
    /\ Returned
    /\ ~stopped
    /\ stopped' = TRUE
    /\ UNCHANGED << dr, caller, cb, expires, audit, outreach, notified, pubsub, now, autoCall, heap, redis, activeAlerts, ir, watch, mon,
                    cl, ret, an, calls, overlap >>

\* escalationMonitor takes case <-s.ctx.Done() and returns
MonExit ==
    /\ Returned
    /\ stopped
    /\ mon.pc = "idle"
    /\ mon' = [mon EXCEPT !.pc = "exited"]
    /\ UNCHANGED << dr, caller, cb, expires, audit, outreach, notified, pubsub, stopped, now, autoCall, heap, redis, activeAlerts, ir,
                    watch, cl, ret, an, calls, overlap >>

StopNext == Next \/ Stop \/ MonExit

StopSpec == Init /\ [][StopNext]_vars

(***************************************************************************)
(* GetActiveAlerts(ctx, facilityID, userID).  A Redis key and a KEYS        *)
(* pattern are the sequences of their parts between colons; the * of a     *)
(* pattern stands for any run of characters, colons included, so for one   *)
(* or more parts.  The ID of an alert is a UUID: one part.  Every alert of *)
(* the model belongs to user u1.  The call is one step: its result is      *)
(* handed back through ret, with the keys whose Get failed (they are       *)
(* skipped, line 682).  QuerySpec is the service with this call.           *)
(***************************************************************************)
UserOf(id) == "u1"
QueryUsers == {"", "u1", "u2"}

\* line 700: the key storeAlert writes and GetAlert reads
KeyOf(id) == << "crisis", "alert", id >>

\* lines 667-672
KeysPattern(userID) ==
    IF userID # ""
    THEN << "crisis", "alert", "*", "user", userID >>
    ELSE << "crisis", "alert", "*" >>

\* the glob match of the Redis KEYS command
RECURSIVE Glob(_, _)
Glob(p, k) ==
    IF p = << >> THEN k = << >>
    ELSE IF Head(p) = "*"
    THEN \E n \in 1 .. Len(k) : Glob(Tail(p), SubSeq(k, n + 1, Len(k)))
    ELSE k # << >> /\ Head(k) = Head(p) /\ Glob(Tail(p), Tail(k))

\* line 691
ListedStatus(status) == status \in {"ACTIVE", "ACKNOWLEDGED"}

\* lines 666-697; getOK: the keys whose Get succeeds
GetActiveAlerts(userID, keysOK, getOK) ==
    IF ~keysOK
    THEN [err |-> "failed to get alert keys", alerts |-> {}, skipped |-> {}]
    ELSE LET keys == {id \in AlertIDs :
                         ~IsNil(redis[id]) /\ Glob(KeysPattern(userID), KeyOf(id))}
         IN [err |-> "",
             alerts |-> {id \in keys \cap getOK : ListedStatus(redis[id].Status)},
             skipped |-> keys \ getOK]

List(userID, keysOK, getOK) ==
    /\ Returned
    /\ LET g == GetActiveAlerts(userID, keysOK, getOK)
       IN ret' = [c |-> 0, op |-> "list", id |-> userID, err |-> g.err,
                  alerts |-> g.alerts, skipped |-> g.skipped]
    /\ UNCHANGED << dr, caller, cb, expires, audit, outreach, notified, stopped, pubsub, now, autoCall, heap,
                    redis, activeAlerts, ir, watch, mon, cl, an, calls, overlap >>

QueryNext ==
    \/ Next
    \/ \E userID \in QueryUsers, keysOK \in BOOLEAN, getOK \in SUBSET AlertIDs :
         List(userID, keysOK, getOK)

QuerySpec == Init /\ [][QueryNext]_vars

(***************************************************************************)
(* The alert feed.  StreamAlerts subscribes to its channel and forwards    *)
(* each message of the channel to its stream until the stream's context    *)
(* ends.  A message gets on a channel by a Publish on it: storeAlert,      *)
(* recordEscalation, AcknowledgeAlert and ResolveAlert issue none, so no   *)
(* step of the service changes pubsub.published.  FeedSpec runs the        *)
(* handlers next to AnalyzeMessage, the response and the callers.          *)
(***************************************************************************)
\* Subscribe and Channel(), lines 884-890 (grpc_streaming.go 643-666)
Subscribe(s) ==
    /\ Returned
    /\ pubsub.subs[s].pc = "off"
    /\ pubsub' = [pubsub EXCEPT !.subs[s] =
                     [pc |-> "open",
                      next |-> Len(pubsub.published[Channel(s)]) + 1,
                      sent |-> << >>,
                      early |-> \A id \in AlertIDs : IsNil(heap[id])]]
    /\ UNCHANGED << dr, caller, cb, expires, audit, outreach, notified, stopped, now, autoCall, heap, redis, activeAlerts, ir, watch, mon, cl,
                    ret, an, calls, overlap >>

\* one turn of the select, lines 892-907: the context is done and the
\* handler returns, or a message has come and is sent on the stream
StreamSelect(s, done) ==
    /\ Returned
    /\ pubsub.subs[s].pc = "open"
    /\ IF done
       THEN pubsub' = [pubsub EXCEPT !.subs[s].pc = "closed"]
       ELSE /\ pubsub.subs[s].next <= Len(pubsub.published[Channel(s)])
            /\ pubsub' = [pubsub EXCEPT
                   !.subs[s].sent =
                       Append(@, pubsub.published[Channel(s)][pubsub.subs[s].next]),
                   !.subs[s].next = @ + 1]
    /\ UNCHANGED << dr, caller, cb, expires, audit, outreach, notified, stopped, now, autoCall, heap, redis, activeAlerts, ir, watch, mon, cl,
                    ret, an, calls, overlap >>

FeedNext ==
    \/ \E id \in AlertIDs, p \in Outcomes, f \in Outcomes, storeOK \in BOOLEAN :
         Analyze(id, p, f, storeOK)
    \/ AnalyzeReturn
    \/ \E id \in AlertIDs, k \in Spawners, teamOK \in BOOLEAN : IRStart(id, k, teamOK)
    \/ \E id \in AlertIDs, k \in Spawners : IRLevel(id, k)
    \/ \E c \in Clients, id \in AlertIDs, readOK \in BOOLEAN : AckRead(c, id, readOK)
    \/ \E c \in Clients, storeOK \in BOOLEAN : AckWrite(c, storeOK)
    \/ \E c \in Clients, id \in AlertIDs, readOK \in BOOLEAN : ResolveRead(c, id, readOK)
    \/ \E c \in Clients, storeOK \in BOOLEAN : ResolveWrite(c, storeOK)
    \/ ClientReturn
    \/ \E s \in Feeds : Subscribe(s)
    \/ \E s \in Feeds, done \in BOOLEAN : StreamSelect(s, done)

FeedSpec == Init /\ [][FeedNext]_vars

(***************************************************************************)
(* notifyEmergencyContacts(ctx, alert), the goroutine initiateResponse      *)
(* starts for IMMEDIATE and URGENT alerts.  Its ctx is the one              *)
(* initiateResponse made with context.WithTimeout and cancels, by defer,   *)
(* when it returns; the goroutine is started two statements before that     *)
(* return, so whether its calls find the context live is a race: live says *)
(* whether GetEmergencyContacts was made before the cancel, handled how    *)
(* many contacts were notified before it.  A call made on the cancelled    *)
(* context fails and delivers nothing.  The goroutine touches no alert, so *)
(* it is scheduled in ResponseSpec only: the response tasks of newly       *)
(* analysed alerts and their outreach.                                     *)
(***************************************************************************)
\* what GetEmergencyContacts answers for the resident
EmergencyContacts ==
    << [Name |-> "c1", Phone |-> "f1", Email |-> "m1"],
       [Name |-> "c2", Phone |-> "", Email |-> "m2"],
       [Name |-> "c3", Phone |-> "f3", Email |-> ""] >>

\* the phone numbers and addresses the loop of lines 538-554 sends to
ContactPhones(cs) == MapSeq(SelectSeq(cs, LAMBDA c : c.Phone # ""), "Phone")
ContactEmails(cs) == MapSeq(SelectSeq(cs, LAMBDA c : c.Email # ""), "Email")

notifyEmergencyContacts(live, contactsOK, handled) ==
    IF ~live
    THEN [pc |-> "done", lookup |-> "cancelled", sms |-> << >>, email |-> << >>]
    ELSE IF ~contactsOK
    THEN [pc |-> "done", lookup |-> "failed", sms |-> << >>, email |-> << >>]
    ELSE LET cs == SubSeq(EmergencyContacts, 1, handled)
         IN [pc |-> "done", lookup |-> "ok",
             sms |-> ContactPhones(cs), email |-> ContactEmails(cs)]

Outreach(id, k, live, contactsOK, handled) ==
    /\ outreach[id][k].pc = "spawned"
    /\ outreach' = [outreach EXCEPT ![id][k] =
                        notifyEmergencyContacts(live, contactsOK, handled)]
    /\ UNCHANGED << dr, caller, cb, expires, audit, notified, stopped, pubsub, now, autoCall, heap, redis, activeAlerts,
                    ir, watch, mon, cl, ret, an, calls, overlap >>

ResponseNext ==
    \/ \E id \in AlertIDs, p \in Outcomes, f \in Outcomes, storeOK \in BOOLEAN :
         Analyze(id, p, f, storeOK)
    \/ AnalyzeReturn
    \/ \E id \in AlertIDs, k \in Spawners, teamOK \in BOOLEAN : IRStart(id, k, teamOK)
    \/ \E id \in AlertIDs, k \in Spawners : IRLevel(id, k)
    \/ \E id \in AlertIDs, k \in Spawners, live \in BOOLEAN, contactsOK \in BOOLEAN,
          handled \in 0 .. Len(EmergencyContacts) :
         Outreach(id, k, live, contactsOK, handled)

ResponseSpec == Init /\ [][ResponseNext]_vars

(***************************************************************************)
(* CircuitBreaker and ServiceClient.CallHTTP of samples/go/service_mesh.go. *)
(* One breaker (one service type) and NumGoroutines goroutines calling it. *)
(* A goroutine is idle, has passed the State() test of CallHTTP or entered *)
(* Execute ("exec"), has left the read lock of allowRequest to make the    *)
(* breaker HALF_OPEN ("trans"), runs the protected function ("fn"), or is  *)
(* about to return ErrCircuitOpen ("refused").  One action is one critical *)
(* section of cb.mu.  ExecSpec has the goroutines call Execute directly,   *)
(* MeshSpec has them call CallHTTP; the crisis service stays in its        *)
(* initial state in both.                                                  *)
(***************************************************************************)
alertVars == << now, autoCall, heap, redis, activeAlerts, ir, watch, mon, cl, ret, an,
               calls, overlap, pubsub, stopped, notified, outreach, audit, expires, dr >>

Bump(n, limit) == IF n > limit THEN n ELSE n + 1

\* lines 582-597; a call let through is counted from the moment the breaker
\* becomes HALF_OPEN
transitionToLocked(b, newState) ==
    [b EXCEPT !.state = newState, !.failures = 0, !.successes = 0,
              !.admitted = IF b.state = "HALF_OPEN" /\ newState = "HALF_OPEN" THEN @ ELSE 0]

\* lines 549-572
recordResult(b, failed) ==
    IF failed
    THEN LET c == [b EXCEPT !.failures = @ + 1, !.elapsed = FALSE, !.successes = 0,
                            !.streak = Bump(@, MaxFailures)]
         IN IF (c.state = "CLOSED" /\ c.failures >= MaxFailures) \/ c.state = "HALF_OPEN"
            THEN transitionToLocked(c, "OPEN")
            ELSE c
    ELSE LET c == [b EXCEPT !.streak = 0]
         IN IF c.state = "HALF_OPEN"
            THEN LET d == [c EXCEPT !.successes = @ + 1]
                 IN IF d.successes >= HalfOpenMax
                    THEN [transitionToLocked(d, "CLOSED") EXCEPT !.failures = 0]
                    ELSE [d EXCEPT !.failures = 0]
            ELSE [c EXCEPT !.failures = 0]

\* lines 524-546, up to the RUnlock of line 533: "fn" the call is let
\* through, "trans" it is let through after transitionTo(CircuitHalfOpen),
\* "refused" it is not
allowRequest(b) ==
    CASE b.state = "CLOSED" -> "fn"
      [] b.state = "OPEN" -> IF b.elapsed THEN "trans" ELSE "refused"
      [] b.state = "HALF_OPEN" -> IF b.successes < HalfOpenMax THEN "fn" ELSE "refused"

\* line 508: a goroutine calls Execute
Execute(p) ==
    /\ caller[p] = "idle"
    /\ caller' = [caller EXCEPT ![p] = "exec"]
    /\ UNCHANGED << cb, alertVars >>

\* lines 662-666 (the registry has an instance, the request is well formed)
CallHTTP(p) ==
    /\ caller[p] = "idle"
    /\ caller' = [caller EXCEPT ![p] = IF cb.state = "OPEN" THEN "refused" ELSE "exec"]
    /\ UNCHANGED << cb, alertVars >>

\* lines 509, 524-546
Allow(p) ==
    /\ caller[p] = "exec"
    /\ caller' = [caller EXCEPT ![p] = allowRequest(cb)]
    /\ cb' = IF cb.state = "HALF_OPEN" /\ allowRequest(cb) = "fn"
             THEN [cb EXCEPT !.admitted = Bump(@, HalfOpenMax)]
             ELSE cb
    /\ UNCHANGED alertVars

\* lines 534-536, 575-579: transitionTo(CircuitHalfOpen) under the write lock
Transition(p) ==
    /\ caller[p] = "trans"
    /\ caller' = [caller EXCEPT ![p] = "fn"]
    /\ cb' = [transitionToLocked(cb, "HALF_OPEN") EXCEPT !.admitted = Bump(@, HalfOpenMax)]
    /\ UNCHANGED alertVars

\* lines 513-517: fn() has returned, recordResult, return
Record(p, failed) ==
    /\ caller[p] = "fn"
    /\ caller' = [caller EXCEPT ![p] = "idle"]
    /\ cb' = recordResult(cb, failed)
    /\ UNCHANGED alertVars

\* lines 509-511 and 664-666: return ErrCircuitOpen
Refuse(p) ==
    /\ caller[p] = "refused"
    /\ caller' = [caller EXCEPT ![p] = "idle"]
    /\ UNCHANGED << cb, alertVars >>

\* the timeout of the breaker passes without a failure being recorded
Elapse ==
    /\ ~cb.elapsed
    /\ cb' = [cb EXCEPT !.elapsed = TRUE]
    /\ UNCHANGED << caller, alertVars >>

BreakerSteps ==
    \/ \E p \in Goroutines : Allow(p)
    \/ \E p \in Goroutines : Transition(p)
    \/ \E p \in Goroutines, failed \in BOOLEAN : Record(p, failed)
    \/ \E p \in Goroutines : Refuse(p)
    \/ Elapse

ExecNext == (\E p \in Goroutines : Execute(p)) \/ BreakerSteps
ExecSpec == Init /\ [][ExecNext]_vars

MeshNext == (\E p \in Goroutines : CallHTTP(p)) \/ BreakerSteps
MeshSpec == Init /\ [][MeshNext]_vars

(***************************************************************************)
(* determineRecipients applied on its own to every alert level and every   *)
(* care team of at most MaxTeam members (or no care team at all); the      *)
(* service itself stays in its initial state.                              *)
(***************************************************************************)
MaxTeam == 2

TeamRoles == {"physician", "nurse", "social_worker", "care_manager", "aide"}
TeamMembers == [UserID : {"u1", "u2"}, Role : TeamRoles, Phone : {"", "ph"}, Email : {"em"}]
CareTeams ==
    {NilTeam} \cup {Team(s) : s \in UNION {[1 .. n -> TeamMembers] : n \in 0 .. MaxTeam}}

DRInit ==
    /\ ServiceInit
    /\ dr \in {[IdleDR EXCEPT !.careTeam = t] : t \in CareTeams}

\* determineRecipients(ctx, alert, careTeam) for an alert of level l
DRApply(l) ==
    /\ ~dr.out[l].set
    /\ LET r == determineRecipients(l, dr.careTeam)
       IN dr' = [dr EXCEPT !.out[l] = [set |-> TRUE, UserIDs |-> r.UserIDs,
                                       PhoneNumbers |-> r.PhoneNumbers]]
    /\ UNCHANGED serviceVars

DRNext == \E l \in Levels : DRApply(l)

DRSpec == DRInit /\ [][DRNext]_vars

(***************************************************************************)
(* Properties.                                                             *)
(***************************************************************************)
Answered(a) == a.Status \in {"ACKNOWLEDGED", "RESOLVED"}

\* the Escalation records the watcher and the monitor append
ByWatcher(e) == e.Reason = "No acknowledgment within deadline" /\ e.TriggeredBy = "auto"
ByMonitor(e) == e.Reason = "Response deadline exceeded" /\ e.TriggeredBy = "auto"
HasWatcherRecord(a) == \E i \in 1 .. Len(a.Escalations) : ByWatcher(a.Escalations[i])
HasMonitorRecord(a) == \E i \in 1 .. Len(a.Escalations) : ByMonitor(a.Escalations[i])

\* a step of the escalation monitor or of an emergency watcher
AutoStep == mon' # mon \/ watch' # watch

\* an invariant of the model: a copy in the map was stored by AcknowledgeAlert,
\* so what the monitor escalates is always the object AnalyzeMessage allocated
CopiesAreAcknowledged ==
    \A id \in AlertIDs :
        /\ activeAlerts[id].kind = "copy" => activeAlerts[id].val.Status = "ACKNOWLEDGED"
        /\ (mon.pc \in {"rec", "lvl"} /\ mon.id = id) => ~IsNil(heap[id])
        /\ mon.pc = "lvl" => ir[mon.id]["esc"].pc = "off"

\* C1: once the durable status of an alert is ACKNOWLEDGED or RESOLVED, no
\* step of the escalation monitor or of an emergency watcher changes the
\* alert's status or severity or appends an Escalation record to it.
C1_NoEscalationAfterAnswer ==
    [][\A id \in AlertIDs :
         (~IsNil(redis[id]) /\ Answered(redis[id]) /\ AutoStep) =>
             /\ redis'[id].Status = redis[id].Status
             /\ redis'[id].Level = redis[id].Level
             /\ redis'[id].Escalations = redis[id].Escalations]_vars

\* C2: whenever the monitor is between two alerts, an indexed alert that no
\* caller has acknowledged or resolved, whose writes all reached the store,
\* whose severity is below IMMEDIATE and whose current response deadline has
\* passed is one the sweep escalates when it reaches it.
C2_EscalatedAtEachDeadline ==
    \A id \in AlertIDs :
        ( /\ Returned /\ mon.pc = "idle"
          /\ activeAlerts[id].kind = "orig"
          /\ \A c \in Clients : cl[c].pc = "new"
          /\ redis[id].Status = heap[id].Status
          /\ redis[id].Escalations = heap[id].Escalations
          /\ heap[id].Level # "IMMEDIATE"
          /\ now > heap[id].ResponseDeadline )
        => ENABLED MonVisit(id)

C2_Skipped ==
    \E id \in AlertIDs :
        /\ activeAlerts[id].kind = "orig"
        /\ heap[id].Status = "ESCALATED"
        /\ heap[id].Level = "URGENT"
        /\ now > heap[id].ResponseDeadline
        /\ mon.pc = "idle"

C4_WatcherStandsDown ==
    [][\A id \in AlertIDs, k \in Spawners :
         ( /\ watch[id][k].pc = "sleep" /\ watch'[id][k].pc # "sleep"
           /\ ~IsNil(redis[id])
           /\ redis[id].Status # "ACTIVE" \/ Len(redis[id].Acknowledgments) >= 1 )
         => /\ watch'[id][k].pc = "done"
            /\ UNCHANGED << calls, heap, redis, activeAlerts >>]_vars

C4_StoodDown ==
    \E id \in AlertIDs :
        /\ watch[id]["new"].pc = "done"
        /\ redis[id].Status = "ACKNOWLEDGED"
        /\ calls[id] = 0
        /\ heap[id].Escalations = << >>

\* C5: an alert never carries both an automatic Escalation record of the
\* monitor and one of a watcher.  Either appends only after it has seen the
\* alert ACTIVE and unacknowledged, and an alert that has left ACTIVE never
\* returns to it, so two such records are a double escalation.
C5_NoDoubleEscalation ==
    \A id \in AlertIDs :
        ~IsNil(heap[id]) => ~(HasMonitorRecord(heap[id]) /\ HasWatcherRecord(heap[id]))

\* the step in which AcknowledgeAlert of caller c returns, on an alert that
\* has a durable record, and the status the call read from that record
AckReturns(c) == ret = NoReturn /\ ret' # NoReturn /\ ret'.op = "ack" /\ ret'.c = c
AckOfExisting(c) == cl[c].pc = "ack" \/ ~IsNil(redis[ret'.id])
StatusRead(c) == IF cl[c].pc = "ack" THEN cl[c].loc.Status ELSE redis[ret'.id].Status
StoreErrors == {"failed to get alert", "failed to update alert"}

\* C6, as the specification states it: AcknowledgeAlert on an existing alert
\* returns nil exactly when the alert's status is ACTIVE or ACKNOWLEDGED, and
\* a call that returns an error leaves the durable record and the index
\* unchanged.
C6_AckSucceedsIffOpen ==
    [][\A c \in Clients :
         (AckReturns(c) /\ AckOfExisting(c)) =>
             /\ (ret'.err = "") <=> (StatusRead(c) \in {"ACTIVE", "ACKNOWLEDGED"})
             /\ ret'.err # "" => UNCHANGED << redis, activeAlerts >>]_vars

\* C6: AcknowledgeAlert on an existing alert returns an error whenever the
\* status it reads is not ACTIVE or ACKNOWLEDGED; when the status is one of
\* the two, the only errors are those of the store (the read or the write
\* failed); a call that returns an error leaves the durable record and the
\* index unchanged, and one that returns nil has written the record.
C6_AckSucceedsIffOpenAndStored ==
    [][\A c \in Clients :
         (AckReturns(c) /\ AckOfExisting(c)) =>
             /\ StatusRead(c) \notin {"ACTIVE", "ACKNOWLEDGED"} => ret'.err # ""
             /\ StatusRead(c) \in {"ACTIVE", "ACKNOWLEDGED"} =>
                    (ret'.err = "" \/ ret'.err \in StoreErrors)
             /\ ret'.err # "" => UNCHANGED << redis, activeAlerts >>
             /\ ret'.err = "" => redis'[ret'.id].Status = "ACKNOWLEDGED"]_vars

C6_Refused ==
    /\ ret.op = "ack"
    /\ ret.err = "alert is not in an acknowledgeable state"
    /\ redis[ret.id].Status = "RESOLVED"
    /\ activeAlerts[ret.id].kind = "none"

\* the callers whose AcknowledgeAlert returned nil, in the order of the calls
RECURSIVE AckedUpTo(_)
AckedUpTo(n) ==
    IF n = 0 THEN << >>
    ELSE AckedUpTo(n - 1) \o (IF cl[n].pc = "acked" THEN << n >> ELSE << >>)

\* C7: when the calls made so far ran one after the other and all have
\* returned, the persisted acknowledgment list holds one record for each
\* AcknowledgeAlert that returned nil, in the order of the calls.
C7_SequentialAcksPersisted ==
    \A id \in AlertIDs :
        ( /\ ~overlap
          /\ \A c \in Clients : ~Running(c)
          /\ \E c \in Clients : cl[c].pc = "acked" )
        => MapSeq(redis[id].Acknowledgments, "UserID") = AckedUpTo(MaxOps)

\* C8: once ResolveAlert has written RESOLVED and removed the alert from the
\* index, the alert stays out of the index and its durable status stays
\* RESOLVED.
C8_ResolvedStaysResolved ==
    [][\A id \in AlertIDs :
         (redis[id].Status = "RESOLVED" /\ activeAlerts[id].kind = "none") =>
             (redis'[id].Status = "RESOLVED" /\ activeAlerts'[id].kind = "none")]_vars

\* the step of an AnalyzeMessage call, and the severity its detection gave
AnalyzeStep == an = NoCall /\ an' # NoCall
UsedLevel == IF an'.primary # "ERR" THEN an'.primary ELSE an'.fallback
NothingStarted == UNCHANGED << heap, redis, activeAlerts, ir, watch, mon, calls >>

\* C9: an AnalyzeMessage whose detection gave NONE returns no alert and no
\* error, writes nothing and starts nothing.
C9_NoneCreatesNothing ==
    [][(AnalyzeStep /\ UsedLevel = "NONE") => (an'.ret = "nil" /\ NothingStarted)]_vars

C9_NoneReturned ==
    /\ an.ret = "nil"
    /\ an.primary = "ERR"
    /\ an.fallback = "NONE"
    /\ \A id \in AlertIDs : IsNil(heap[id]) /\ IsNil(redis[id])

\* C10: AnalyzeMessage asks the fallback detector exactly when the router
\* call failed, and then the alert carries the fallback's severity; it
\* returns an error exactly when both failed, and then writes nothing and
\* starts nothing.
C10_FallbackOnlyOnFailure ==
    [][AnalyzeStep =>
         /\ (an'.fallback # "UNASKED") <=> (an'.primary = "ERR")
         /\ (an'.ret = "err") <=> (an'.primary = "ERR" /\ an'.fallback = "ERR")
         /\ an'.ret = "err" => NothingStarted
         /\ an'.ret \in AlertIDs =>
                (heap'[an'.ret].Level = UsedLevel /\ ir'[an'.ret]["new"].pc = "start")]_vars

C10_FallbackUsed ==
    /\ an.primary = "ERR"
    /\ an.fallback = "URGENT"
    /\ an.ret \in AlertIDs
    /\ heap[an.ret].Level = "URGENT"
    /\ ~IsNil(redis[an.ret])
    /\ redis[an.ret].Level = "URGENT"

\* the response timeouts of the specification, in seconds
SpecTimeout(l) ==
    CASE l = "IMMEDIATE" -> 30
      [] l = "URGENT" -> 5 * 60
      [] l = "ELEVATED" -> 60 * 60
      [] l = "MODERATE" -> 24 * 60 * 60

\* C11: the alert an AnalyzeMessage call returns is ACTIVE, has no
\* acknowledgments and no escalations, carries the time of the call as its
\* Timestamp and that time plus the response timeout of its severity as its
\* ResponseDeadline; the record the call stores, if the store takes it, is
\* that alert.
C11_CreatedAlertShape ==
    [][(AnalyzeStep /\ an'.ret \in AlertIDs) =>
         LET a == heap'[an'.ret]
         IN /\ a.Status = "ACTIVE"
            /\ a.Acknowledgments = << >>
            /\ a.Escalations = << >>
            /\ a.Level = UsedLevel
            /\ a.Timestamp = now
            /\ a.ResponseDeadline = a.Timestamp + SpecTimeout(a.Level)
            /\ redis'[an'.ret] \in {a, Nil}]_vars

C11_Created ==
    /\ an.ret \in AlertIDs
    /\ heap[an.ret].Level = "ELEVATED"
    /\ heap[an.ret].Timestamp = StartTime
    /\ heap[an.ret].ResponseDeadline = StartTime + 3600
    /\ redis[an.ret] = heap[an.ret]

\* the ladder of the specification
SpecNextTier(l) ==
    CASE l = "MODERATE" -> "ELEVATED"
      [] l = "ELEVATED" -> "URGENT"
      [] l = "URGENT" -> "IMMEDIATE"
      [] l = "IMMEDIATE" -> "IMMEDIATE"

\* C12: when the monitor has escalated an alert of severity L, the alert has
\* the next tier as its severity, the time of the escalation plus the timeout
\* of that tier as its deadline and an Escalation record (L, next tier,
\* "Response deadline exceeded", "auto"); and if the monitor's write reached
\* the store, the durable record has that severity, deadline and record.
C12_EscalationPersisted ==
    [][\A id \in AlertIDs :
         (mon.pc = "lvl" /\ mon.id = id /\ mon'.pc = "idle") =>
             LET L == heap[id].Level
                 r == [FromLevel |-> L, ToLevel |-> SpecNextTier(L),
                       Reason |-> "Response deadline exceeded", TriggeredBy |-> "auto"]
             IN /\ heap'[id].Level = SpecNextTier(L)
                /\ heap'[id].ResponseDeadline = now + SpecTimeout(SpecNextTier(L))
                /\ \E i \in 1 .. Len(heap'[id].Escalations) : heap'[id].Escalations[i] = r
                /\ (~IsNil(redis[id]) /\ redis[id].Escalations = heap[id].Escalations) =>
                       /\ redis'[id].Level = heap'[id].Level
                       /\ redis'[id].ResponseDeadline = heap'[id].ResponseDeadline]_vars

NeverLowered(e) == Rank(e.ToLevel) >= Rank(e.FromLevel)
Raised(e) == Rank(e.ToLevel) > Rank(e.FromLevel)

\* C13: the severity of an alert never decreases, in the index and in the
\* durable record; every Escalation record has a ToLevel at least its
\* FromLevel; a record of the monitor from a severity below IMMEDIATE has a
\* strictly higher ToLevel.
C13_SeverityNeverDecreases ==
    [][\A id \in AlertIDs :
         /\ (~IsNil(redis[id]) /\ ~IsNil(redis'[id])) =>
                Rank(redis'[id].Level) >= Rank(redis[id].Level)
         /\ (activeAlerts[id].kind # "none" /\ activeAlerts'[id].kind # "none") =>
                Rank(Deref(id)'.Level) >= Rank(Deref(id).Level)
         /\ ~IsNil(heap'[id]) => \A i \in 1 .. Len(heap'[id].Escalations) :
                LET e == heap'[id].Escalations[i]
                IN /\ NeverLowered(e)
                   /\ (ByMonitor(e) /\ e.FromLevel # "IMMEDIATE") => Raised(e)]_vars

\* the monitor takes up the escalation of id in this step
MonitorEscalates(id) == mon.pc = "idle" /\ mon'.pc = "rec" /\ mon'.id = id

\* what the specification requires of the examined alert
DueAtExamination(a) ==
    /\ a.Status = "ACTIVE"
    /\ a.Acknowledgments = << >>
    /\ now > a.ResponseDeadline

\* C14: the monitor escalates an indexed alert exactly when, at the moment it
\* examines it, the alert is ACTIVE, has no acknowledgment and the time is
\* past its deadline: an idle monitor can take up the escalation of an
\* indexed alert if and only if that holds of the entry, it takes it up only
\* then, and its escalation is never recorded before the deadline.
C14_EscalatesIffDue ==
    /\ [](\A id \in AlertIDs :
            (Returned /\ mon.pc = "idle" /\ activeAlerts[id].kind # "none") =>
                (ENABLED MonVisit(id) <=> DueAtExamination(Deref(id))))
    /\ [][\A id \in AlertIDs :
            /\ MonitorEscalates(id) =>
                   activeAlerts[id].kind # "none" /\ DueAtExamination(Deref(id))
            /\ (mon.pc = "rec" /\ mon.id = id /\ mon'.pc = "lvl") =>
                   now > heap[id].ResponseDeadline]_vars

C14_Examined ==
    /\ mon.pc = "rec"
    /\ heap[mon.id].Status = "ACTIVE"
    /\ heap[mon.id].Level = "URGENT"
    /\ now = heap[mon.id].ResponseDeadline + 1

ToSet(s) == {s[i] : i \in DOMAIN s}

\* the roles the specification selects at each severity
SpecRoles(l) ==
    CASE l = "IMMEDIATE" -> TeamRoles
      [] l = "URGENT" -> {"physician", "nurse", "social_worker"}
      [] l = "ELEVATED" -> {"physician", "social_worker"}
      [] l = "MODERATE" -> {"care_manager"}

\* the positions of the members the specification selects
SpecSelection(l, careTeam) ==
    IF careTeam.nil THEN {}
    ELSE {i \in DOMAIN careTeam.Members : careTeam.Members[i].Role \in SpecRoles(l)}

\* C15: for every care team and every alert level, the user IDs that
\* determineRecipients returns are exactly those of all members for
\* IMMEDIATE, of the physicians, nurses and social workers for URGENT, of the
\* physicians and social workers for ELEVATED, of the care managers for
\* MODERATE, and none when there is no care team.
C15_RecipientsByRole ==
    \A l \in Levels :
        dr.out[l].set =>
            LET sel == SpecSelection(l, dr.careTeam)
            IN /\ ToSet(dr.out[l].UserIDs) = {dr.careTeam.Members[i].UserID : i \in sel}
               /\ Len(dr.out[l].UserIDs) = Cardinality(sel)

C15_UrgentSelected ==
    /\ dr.out["URGENT"].set
    /\ dr.careTeam = Team(<< [UserID |-> "u1", Role |-> "nurse", Phone |-> "", Email |-> "em"],
                             [UserID |-> "u2", Role |-> "care_manager", Phone |-> "ph", Email |-> "em"] >>)
    /\ dr.out["URGENT"].UserIDs = << "u1" >>

\* C16: for every care team, the user IDs computed for IMMEDIATE include
\* those computed for URGENT, which include those computed for ELEVATED.
C16_RecipientsNested ==
    /\ (dr.out["IMMEDIATE"].set /\ dr.out["URGENT"].set) =>
           ToSet(dr.out["URGENT"].UserIDs) \subseteq ToSet(dr.out["IMMEDIATE"].UserIDs)
    /\ (dr.out["URGENT"].set /\ dr.out["ELEVATED"].set) =>
           ToSet(dr.out["ELEVATED"].UserIDs) \subseteq ToSet(dr.out["URGENT"].UserIDs)

C16_ThreeLevels ==
    /\ dr.out["IMMEDIATE"].set /\ dr.out["URGENT"].set /\ dr.out["ELEVATED"].set
    /\ dr.out["IMMEDIATE"].UserIDs = << "u1", "u2" >>
    /\ dr.out["URGENT"].UserIDs = << "u1" >>
    /\ dr.out["ELEVATED"].UserIDs = << >>

\* initiateResponse k of id gets the care team and notifies (lines 383-401)
LookupStep(id, k) == ir[id][k].pc = "start" /\ ir'[id][k].pc = "level"
\* initiateResponse k of id runs its IMMEDIATE branch (lines 403-418)
ImmediateStep(id, k) ==
    ir[id][k].pc = "level" /\ ir'[id][k].pc = "done" /\ heap[id].Level = "IMMEDIATE"

C18_UnstoredAlertStillEscalates ==
    \A id \in AlertIDs :
        (/\ autoCall
         /\ ~IsNil(heap[id])
         /\ IsNil(redis[id])
         /\ heap[id].Level = "IMMEDIATE"
         /\ heap[id].Acknowledgments = << >>
         /\ watch[id]["new"].pc = "done")
        => (heap[id].Status = "ESCALATED" /\ HasWatcherRecord(heap[id]))

Quiescent ==
    /\ Returned
    /\ mon.pc = "idle"
    /\ \A c \in Clients : ~Running(c)
    /\ \A id \in AlertIDs, k \in Spawners :
           /\ ir[id][k].pc \in {"off", "done"}
           /\ watch[id][k].pc \in {"off", "done"}

SameFields(a, b) ==
    /\ a.Level = b.Level
    /\ a.Status = b.Status
    /\ a.ResponseDeadline = b.ResponseDeadline
    /\ a.AssignedTo = b.AssignedTo
    /\ a.Acknowledgments = b.Acknowledgments
    /\ a.Escalations = b.Escalations

\* C20: when no operation is in progress, the index entry of an alert and
\* its durable record have the same severity, status, response deadline,
\* assigned recipients, acknowledgments and escalations.
C20_IndexAgreesWithStore ==
    \A id \in AlertIDs :
        (Quiescent /\ activeAlerts[id].kind # "none" /\ ~IsNil(redis[id])) =>
            SameFields(Deref(id), redis[id])

\* the handler has forwarded everything its subscription delivered
Drained(s) == pubsub.subs[s].next > Len(pubsub.published[Channel(s)])

\* C21: a state change of an alert reaches every subscriber of the feed: a
\* handler that listens since before the alert existed has, once no
\* operation is in progress and it has forwarded all it was delivered, sent
\* the alert on its stream.
C21_ChangesReachSubscribers ==
    \A s \in Feeds, id \in AlertIDs :
        (/\ pubsub.subs[s].pc = "open" /\ pubsub.subs[s].early
         /\ Quiescent /\ Drained(s)
         /\ ~IsNil(redis[id]))
        => pubsub.subs[s].sent # << >>

\* C22: once Stop has been called no background task changes an alert,
\* records an escalation or makes an emergency call, and the monitor starts
\* no escalation.
C22_NothingAfterStop ==
    [][stopped =>
         /\ \A id \in AlertIDs :
                /\ ~IsNil(heap[id]) => heap'[id] = heap[id]
                /\ calls'[id] = calls[id]
         /\ mon'.pc = "rec" => mon.pc = "rec"]_vars

NoWatcherRecord(a) == IsNil(a) \/ ~HasWatcherRecord(a)

\* C23: with Enable911AutoCall disabled TriggerEmergencyCall is never
\* invoked, no watcher runs, and no copy of an alert (the object, the
\* durable record, the index entry, a copy a caller holds) has an Escalation
\* record with reason "No acknowledgment within deadline".
C23_NoAutoCallWhenDisabled ==
    ~autoCall =>
        \A id \in AlertIDs :
            /\ calls[id] = 0
            /\ \A k \in Spawners : watch[id][k].pc = "off"
            /\ NoWatcherRecord(heap[id])
            /\ NoWatcherRecord(redis[id])
            /\ activeAlerts[id].kind = "copy" => NoWatcherRecord(activeAlerts[id].val)
            /\ \A c \in Clients : NoWatcherRecord(cl[c].loc)

C23_ImmediateWithoutWatcher ==
    \E id \in AlertIDs :
        /\ ~autoCall
        /\ ~IsNil(heap[id])
        /\ heap[id].Level = "IMMEDIATE"
        /\ HasMonitorRecord(heap[id])
        /\ ir[id]["new"].pc = "done" /\ ir[id]["esc"].pc = "done"

\* the step in which a call of caller c on an alert ID that has no durable
\* record returns
UnknownReturns(c) ==
    /\ ret = NoReturn /\ ret' # NoReturn /\ ret'.c = c
    /\ cl[c].pc = "new"
    /\ IsNil(redis[ret'.id])

\* C24 as stated: AcknowledgeAlert and ResolveAlert on an alert ID that was
\* never stored return "alert not found" and change neither the durable
\* store nor the index.
C24_UnknownAlertNotFound ==
    [][\A c \in Clients :
         UnknownReturns(c) =>
             /\ ret'.err = "alert not found"
             /\ UNCHANGED << redis, activeAlerts >>]_vars

\* C24, amended: on an alert ID that was never stored GetAlert answers
\* "alert not found" when the store can be read; AcknowledgeAlert and
\* ResolveAlert return GetAlert's error, which is that or the error of the
\* read, and change neither the durable store nor the index.
C24_UnknownAlertRefused ==
    [][\A c \in Clients :
         /\ \A id \in AlertIDs :
                IsNil(redis[id]) =>
                    /\ GetAlert(id, TRUE) = [err |-> "alert not found", alert |-> Nil]
                    /\ GetAlert(id, FALSE).err = "failed to get alert"
         /\ \A id \in AlertIDs, op \in {"ack", "res"} :
                (cl[c].pc = "new" /\ cl'[c].pc # "new" /\ IsNil(redis[id])
                   /\ (IF op = "ack" THEN ENABLED AckRead(c, id, TRUE)
                                     ELSE ENABLED ResolveRead(c, id, TRUE)))
                    => ret' # NoReturn
         /\ UnknownReturns(c) =>
                /\ ret'.err \in {"alert not found", "failed to get alert"}
                /\ ret'.op \in {"ack", "res"}
                /\ cl'[c].pc = "done"
                /\ UNCHANGED << redis, activeAlerts, heap >>]_vars

C24_ResolveOfUnknown ==
    /\ ret.op = "res"
    /\ ret.err = "alert not found"
    /\ IsNil(redis[ret.id])
    /\ activeAlerts[ret.id].kind = "none"

\* an alert without what the care-team lookup decides
WithoutRecipients(a) == IF IsNil(a) THEN a ELSE [a EXCEPT !.AssignedTo = << >>]

IsPrefix(s, t) == Len(s) <= Len(t) /\ SubSeq(t, 1, Len(s)) = s

\* C26: the persisted acknowledgment list and escalation list of an alert
\* only grow by appending, whatever the interleaving of acknowledgments,
\* resolutions, monitor sweeps and watchers.
C26_HistoriesOnlyGrow ==
    [][\A id \in AlertIDs :
         (~IsNil(redis[id]) /\ ~IsNil(redis'[id])) =>
             /\ IsPrefix(redis[id].Acknowledgments, redis'[id].Acknowledgments)
             /\ IsPrefix(redis[id].Escalations, redis'[id].Escalations)]_vars

\* a watcher of id is waiting or at work
WatcherPending(id) ==
    \E k \in Spawners : watch[id][k].pc \in {"sleep", "armed", "call", "record"}

\* C27: a failed emergency check is tried again: when a watcher of an
\* IMMEDIATE alert has ended and the alert's record is still ACTIVE and
\* unacknowledged (its fetch or its contact lookup failed), the emergency
\* call has been made or a watcher is scheduled for the alert.
C27_FailedCheckRetried ==
    \A id \in AlertIDs, k \in Spawners :
        (/\ autoCall
         /\ watch[id][k].pc = "done"
         /\ ~IsNil(redis[id])
         /\ redis[id].Status = "ACTIVE"
         /\ redis[id].Acknowledgments = << >>
         /\ heap[id].Level = "IMMEDIATE")
        => (calls[id] > 0 \/ WatcherPending(id))

(***************************************************************************)
(* C28: for every IMMEDIATE or URGENT alert whose response is initiated,   *)
(* the outreach to the emergency contacts runs to completion: once the     *)
(* goroutine has returned, and unless the contact lookup itself was        *)
(* refused by the care-team service, one SMS has gone to every contact     *)
(* with a phone and one email to every contact with an address, whatever   *)
(* the care-team lookup did and whenever initiateResponse returned.        *)
(***************************************************************************)
C28_OutreachCompletes ==
    \A id \in AlertIDs, k \in Spawners :
        (outreach[id][k].pc = "done" /\ outreach[id][k].lookup # "failed") =>
            /\ outreach[id][k].sms = ContactPhones(EmergencyContacts)
            /\ outreach[id][k].email = ContactEmails(EmergencyContacts)

(***************************************************************************)
(* C29: response initiation pushes to the determined recipients at every   *)
(* severity; for an IMMEDIATE alert it also sends an SMS to every          *)
(* recipient with a phone number and an email to every care-team member;   *)
(* below IMMEDIATE no SMS goes to the care team.                           *)
(***************************************************************************)
RecipientPhones(ids) ==
    MapSeq(SelectSeq(CareTeamMembers,
                     LAMBDA m : m.UserID \in ToSet(ids) /\ m.Phone # ""), "Phone")

C29_CareTeamNotified ==
    [][\A id \in AlertIDs, k \in Spawners :
         /\ (ir[id][k].pc = "start" /\ ir'[id][k].pc = "level") =>
                /\ notified'[id].pushed
                /\ notified'[id].push = heap'[id].AssignedTo
         /\ (ir[id][k].pc = "level" /\ ir'[id][k].pc = "done") =>
                LET sms == CareTeamSMS(heap[id].Level, ir[id][k].phones)
                IN IF heap[id].Level = "IMMEDIATE"
                   THEN ir[id][k].lookup = "ok" =>
                           /\ sms = RecipientPhones(notified[id].push)
                           /\ notified'[id].email = MapSeq(CareTeamMembers, "Email")
                   ELSE sms = << >>]_vars

(***************************************************************************)
(* C30: in a service made by NewCrisisService, every response initiation,  *)
(* every successful acknowledgment, every successful resolution and every  *)
(* recorded escalation emits exactly one audit event, of type              *)
(* response_initiated, acknowledged, resolved and escalated respectively,  *)
(* that carries the alert's ID.                                            *)
(***************************************************************************)
Emits(type, id) == audit' = Append(audit, [EventType |-> type, AlertID |-> id])

C30_OneAuditEventEach ==
    [][/\ \A id \in AlertIDs, k \in Spawners :
            (ir[id][k].pc = "level" /\ ir'[id][k].pc = "done") =>
                Emits("response_initiated", id)
       /\ \A c \in Clients :
            (cl[c].pc = "ack" /\ ret'.c = c /\ ret'.op = "ack" /\ ret'.err = "") =>
                Emits("acknowledged", cl[c].id)
       /\ \A c \in Clients :
            (cl[c].pc = "res" /\ ret'.c = c /\ ret'.op = "res" /\ ret'.err = "") =>
                Emits("resolved", cl[c].id)
       /\ \A id \in AlertIDs :
            (~IsNil(heap[id]) /\ ~IsNil(heap'[id])
               /\ Len(heap'[id].Escalations) > Len(heap[id].Escalations)) =>
                Emits("escalated", id)]_vars

(***************************************************************************)
(* C31: a durable record expires 7 days after the creation time of its     *)
(* alert; acknowledging, resolving or escalating the alert neither extends *)
(* nor shortens the retention.                                             *)
(***************************************************************************)
C31_RetentionFromCreation ==
    \A id \in AlertIDs :
        ~IsNil(redis[id]) => expires[id] = redis[id].Timestamp + AlertTTL

(***************************************************************************)
(* C32: GetActiveAlerts with a non-empty userID returns exactly the        *)
(* persisted alerts of that user whose status is ACTIVE or ACKNOWLEDGED,   *)
(* and with an empty userID all persisted alerts with such a status; the   *)
(* call changes neither the durable store nor the index.  Stated for the   *)
(* calls in which every Redis read succeeds.                               *)
(***************************************************************************)
ListStep == ret = NoReturn /\ ret'.op = "list" /\ ret'.err = "" /\ ret'.skipped = {}

C32_ListReturnsOpenAlertsOfUser ==
    [][ListStep =>
          /\ ret'.alerts =
                 {id \in AlertIDs :
                     /\ ~IsNil(redis[id])
                     /\ redis[id].Status \in {"ACTIVE", "ACKNOWLEDGED"}
                     /\ (ret'.id = "" \/ UserOf(id) = ret'.id)}
          /\ UNCHANGED << redis, activeAlerts >>]_vars

(***************************************************************************)
(* C33: every persisted alert whose status is not RESOLVED (ACTIVE,        *)
(* ACKNOWLEDGED or ESCALATED) is an open alert: it is in the in-memory     *)
(* index and in the result of GetActiveAlerts; no RESOLVED alert is in     *)
(* either.  Stated at a GetActiveAlerts call for all users in which every  *)
(* Redis read succeeds.                                                    *)
(***************************************************************************)
C33_OpenAlertsIndexedAndListed ==
    [][(ListStep /\ ret'.id = "") =>
          \A id \in AlertIDs :
              ~IsNil(redis[id]) =>
                  IF redis[id].Status # "RESOLVED"
                  THEN activeAlerts[id] # NoEntry /\ id \in ret'.alerts
                  ELSE activeAlerts[id] = NoEntry /\ id \notin ret'.alerts]_vars

(***************************************************************************)
(* C34: ResolveAlert attempted on an alert that is not in an eligible      *)
(* status, in particular one it reads as already RESOLVED, returns an      *)
(* error and leaves the stored record, with its status and resolution      *)
(* metadata, unchanged.                                                    *)
(***************************************************************************)
C34_ResolveOfResolvedRefused ==
    [][\A c \in Clients :
          (/\ cl[c].pc = "res"
           /\ cl[c].loc.Status = "RESOLVED"
           /\ ret'.c = c /\ ret'.op = "res") =>
              /\ ret'.err # ""
              /\ UNCHANGED << redis, expires >>]_vars

(***************************************************************************)
(* C35: when the durable write of AcknowledgeAlert or ResolveAlert fails,  *)
(* the call returns an error and the durable record, its retention, the    *)
(* alert's entry in the index and its membership in the index are          *)
(* unchanged; a call that returns no error has written the record it       *)
(* built.                                                                  *)
(***************************************************************************)
C35_FailedWriteChangesNothing ==
    [][\A c \in Clients :
          (Running(c) /\ ret'.c = c) =>
              IF ret'.err # ""
              THEN UNCHANGED << redis, expires, activeAlerts >>
              ELSE /\ redis'[cl[c].id] =
                         IF cl[c].pc = "ack" THEN WithAcknowledgment(cl[c].loc, c)
                                             ELSE WithResolution(cl[c].loc)
                   /\ expires'[cl[c].id] = Expiry(now)]_vars

C35_ResolveWriteFailed ==
    /\ ret.op = "res"
    /\ ret.err = "failed to update alert"
    /\ ~IsNil(redis[ret.id])
    /\ redis[ret.id].Status = "ACKNOWLEDGED"
    /\ activeAlerts[ret.id] # NoEntry

(***************************************************************************)
(* C36: once the persisted status of an alert is ESCALATED, every          *)
(* AcknowledgeAlert on it fails and no monitor sweep or watcher firing     *)
(* escalates it again: the persisted record changes afterwards only by a   *)
(* ResolveAlert, which sets RESOLVED.                                      *)
(***************************************************************************)
C36_EscalatedIsFinalButForResolve ==
    [][\A id \in AlertIDs :
          (~IsNil(redis[id]) /\ redis[id].Status = "ESCALATED") =>
              \/ redis'[id] = redis[id]
              \/ /\ redis'[id].Status = "RESOLVED"
                 /\ ret'.op = "res" /\ ret'.err = ""]_vars

(***************************************************************************)
(* C37: TriggerEmergencyCall is invoked at most once per alert over the    *)
(* alert's whole lifetime, in every interleaving of watcher firings,       *)
(* monitor sweeps (an IMMEDIATE alert is escalated to IMMEDIATE again,     *)
(* which starts another watcher), acknowledgments and resolutions.         *)
(***************************************************************************)
C37_AtMostOneEmergencyCall == \A id \in AlertIDs : calls[id] <= 1

(***************************************************************************)
(* C38: after the breaker of a service has opened, a CallHTTP that arrives *)
(* once the breaker timeout has elapsed since the last failure is admitted *)
(* as a half-open trial (and HalfOpenMax successful trials close the       *)
(* breaker), so that an open breaker does not stay open forever.  Stated   *)
(* on the call that arrives: it is not refused.                            *)
(***************************************************************************)
C38_CallAfterTimeoutAdmitted ==
    [][\A p \in Goroutines :
          (/\ caller[p] = "idle" /\ caller'[p] # "idle"
           /\ cb.state = "OPEN" /\ cb.elapsed) =>
              caller'[p] = "exec"]_vars

(***************************************************************************)
(* C39: under Execute the state of the breaker changes only along these    *)
(* transitions: CLOSED to OPEN exactly when MaxFailures failures have been *)
(* recorded with no success in between; OPEN to HALF_OPEN only when a call *)
(* arrives after the timeout has elapsed since the last failure; HALF_OPEN *)
(* to OPEN on any failure; HALF_OPEN to CLOSED after HalfOpenMax           *)
(* successes; and while OPEN before the timeout Execute returns            *)
(* ErrCircuitOpen without invoking the function.                           *)
(***************************************************************************)
C39_BreakerTransitions ==
    [][/\ cb'.state # cb.state =>
            \/ /\ cb.state = "CLOSED" /\ cb'.state = "OPEN"
               /\ cb.streak + 1 >= MaxFailures
            \/ /\ cb.state = "OPEN" /\ cb'.state = "HALF_OPEN"
               /\ cb.elapsed
            \/ cb.state = "HALF_OPEN" /\ cb'.state = "OPEN"
            \/ /\ cb.state = "HALF_OPEN" /\ cb'.state = "CLOSED"
               /\ cb.successes + 1 >= HalfOpenMax
       /\ (cb.state = "CLOSED" /\ cb'.streak >= MaxFailures /\ cb'.streak # cb.streak) =>
            cb'.state = "OPEN"
       /\ (cb.state = "HALF_OPEN" /\ cb'.elapsed # cb.elapsed /\ ~cb'.elapsed) =>
            cb'.state = "OPEN"
       /\ \A p \in Goroutines :
            (caller[p] = "exec" /\ caller'[p] # "exec"
               /\ cb.state = "OPEN" /\ ~cb.elapsed) =>
                caller'[p] = "refused"]_vars

(***************************************************************************)
(* C40: while the breaker is HALF_OPEN at most HalfOpenMax calls are       *)
(* admitted (have their function invoked) before the breaker leaves        *)
(* HALF_OPEN, also when several goroutines call Execute concurrently.      *)
(***************************************************************************)
C40_HalfOpenAdmitsAtMostMax ==
    cb.state = "HALF_OPEN" => cb.admitted <= HalfOpenMax

====
